---------------------------- MODULE Spec2Model ----------------------------
(***************************************************************************)
(* A model of the jobly REST API: the data-access classes Job and Company   *)
(* (models/job.js, models/company.js), the /jobs router (routes/jobs.js)    *)
(* and the partial-update helper (helpers/sql.js), over a relational store  *)
(* with the two tables "companies" and "jobs".                              *)
(*                                                                          *)
(* SQL values: a nullable column holds NULL (the empty tuple) or Some(v)    *)
(* (a one-element tuple).  A JavaScript argument that is undefined is the   *)
(* empty tuple too.  Text that the code inspects character by character     *)
(* (titles, names, search strings) is a tuple of one-character strings.     *)
(***************************************************************************)
EXTENDS Integers, Sequences, FiniteSets, TLC

VARIABLES
    companies,  \* the rows of table companies
    jobs,       \* the rows of table jobs
    nextId,     \* the next value of the jobs.id serial
    inflight,   \* Company.create calls between their two statements
    last,       \* the last completed call or request, with its outcome
    workload    \* which table the calls of this behaviour vary: "jobs" or "companies"

vars == <<companies, jobs, nextId, inflight, last, workload>>

-----------------------------------------------------------------------------
(* Bounds and input sets *)

\* Job.create calls a behaviour makes at most (ids run 1..MaxJobId).
MaxJobId == 2

NULL == <<>>
Undefined == <<>>
Some(v) == <<v>>

Handles == {"c1", "c2"}
Titles == {<<"j", "1">>, <<"J", "2">>}
Salaries == {NULL, Some(1000), Some(2000)}
Equities == {NULL, Some("0.5")}
JobIds == 1..(MaxJobId + 1)

\* Arguments the filters are called with.
StrArgs == {Undefined, Some(<<>>), Some(<<"J">>), Some(<<"1">>)}
MinArgs == {Undefined, Some(0), Some(2000)}
EquityArgs == {Undefined, Some(FALSE), Some(TRUE)}

-----------------------------------------------------------------------------
(* JavaScript and SQL primitives *)

\* String.prototype.toLowerCase / SQL LOWER on one character.
LowerChar(c) == IF c = "J" THEN "j" ELSE c

toLowerCase(s) == [i \in 1..Len(s) |-> LowerChar(s[i])]

\* text LIKE '%pat%' for a pattern without wildcard characters.
Like(text, pat) ==
    \E i \in 0..(Len(text) - Len(pat)) :
        \A k \in 1..Len(pat) : text[i + k] = pat[k]

\* JavaScript truthiness of an optional string, number or boolean argument.
\* (TruthyNum_Supplied: a number counts whenever it is supplied, 0 included.)
TruthyNum_Supplied(a) == a # Undefined
TruthyStr(a) == a # Undefined /\ Len(a[1]) > 0
TruthyNum(a) == a # Undefined /\ a[1] # 0
TruthyBool(a) == a # Undefined /\ a[1]

\* Byte order of the characters titles are made of.
CharRank(c) == CASE c = "1" -> 1 [] c = "2" -> 2 [] c = "J" -> 3 [] OTHER -> 4

RECURSIVE TextLeq(_, _)
TextLeq(a, b) ==
    IF Len(a) = 0 THEN TRUE
    ELSE IF Len(b) = 0 THEN FALSE
    ELSE IF CharRank(Head(a)) # CharRank(Head(b))
         THEN CharRank(Head(a)) < CharRank(Head(b))
         ELSE TextLeq(Tail(a), Tail(b))

\* ORDER BY on a nullable integer column (NULLs sort last).
IntLeq(a, b) == IF b = NULL THEN TRUE ELSE IF a = NULL THEN FALSE ELSE a[1] <= b[1]

\* r1 may come before r2 under ORDER BY col.
ColumnLeq(col, r1, r2) ==
    CASE col = "title" -> TextLeq(r1.title, r2.title)
      [] col = "name" -> TextLeq(r1.name, r2.name)
      [] col = "salary" -> IntLeq(r1.salary, r2.salary)
      [] col = "num_employees" -> r1.num_employees <= r2.num_employees

\* The result sets a SELECT ... ORDER BY col can return: every arrangement of
\* the rows that respects the sort key; rows with equal keys come in any order.
RECURSIVE OrderBy(_, _)
OrderBy(rows, col) ==
    IF rows = {}
    THEN {<<>>}
    ELSE UNION { { <<r>> \o s : s \in OrderBy(rows \ {r}, col) } :
                   r \in { m \in rows : \A o \in rows : ColumnLeq(col, m, o) } }

-----------------------------------------------------------------------------
(* The database: the schema and the statements the code issues *)

JobColumns == {"id", "title", "salary", "equity", "company_handle"}
CompanyColumns == {"handle", "name", "description", "num_employees", "logo_url"}

\* companies.handle is the primary key: an INSERT of a present handle fails.
PrimaryKeyFree(tbl, handle) == \A r \in tbl : r.handle # handle

\* jobs.company_handle without the reference to companies.
ForeignKeyHolds_Unchecked(ctbl, handle) == TRUE

\* jobs.company_handle REFERENCES companies.
ForeignKeyHolds(ctbl, handle) == \E c \in ctbl : c.handle = handle

\* ... ON DELETE CASCADE: the jobs that survive the deletion of a company.
OnDeleteCascade(jtbl, handle) == { j \in jtbl : j.company_handle # handle }

\* pg binds an undefined parameter as NULL.
Bind(v) == IF v = Undefined THEN NULL ELSE v

\* A destructured property of a JavaScript object: undefined when absent.
Prop(obj, k) == IF k \in DOMAIN obj THEN obj[k] ELSE Undefined

\* UPDATE tbl SET "col"=$k, ... WHERE key = $n.  A quoted column name is
\* matched case-sensitively against the table's columns; a name that is no
\* column fails the statement before any row is touched, and so do an empty
\* SET list and a change that would leave two rows with one key.
SqlUpdate(tbl, columns, setCols, params, keyCol) ==
    LET n == Len(setCols)
        Assign(r) ==
            [c \in DOMAIN r |->
                IF \E i \in 1..n : setCols[i].col = c
                THEN LET i == CHOOSE i \in 1..n :
                                /\ setCols[i].col = c
                                /\ \A k \in (i + 1)..n : setCols[k].col # c
                     IN  params[setCols[i].param]
                ELSE r[c]]
        hit == { r \in tbl : r[keyCol] = params[n + 1] }
        new == (tbl \ hit) \cup { Assign(r) : r \in hit }
    IN  IF n = 0 \/ \E i \in 1..n : setCols[i].col \notin columns
        THEN [status |-> "DbError", tbl |-> tbl, rows |-> {}]
        ELSE IF Cardinality({ r[keyCol] : r \in new }) # Cardinality(tbl)
        THEN [status |-> "DbError", tbl |-> tbl, rows |-> {}]
        ELSE [status |-> "ok", tbl |-> new, rows |-> { Assign(r) : r \in hit }]

-----------------------------------------------------------------------------
(* helpers/sql.js *)

\* Object.keys(obj): the keys in insertion order, which the model fixes to
\* the order of FieldOrder.
FieldOrder == <<"id", "handle", "title", "salary", "equity", "companyHandle",
                "company_handle", "name", "description", "numEmployees",
                "logoUrl">>

Object_keys(obj) ==
    LET Present(k) == k \in DOMAIN obj IN SelectSeq(FieldOrder, Present)

\* jsToSql[colName] || colName: an entry that is absent (undefined) or the
\* empty string is falsy, and the key itself is used.
ColumnOf(jsToSql, colName) ==
    IF colName \in DOMAIN jsToSql /\ jsToSql[colName] # ""
    THEN jsToSql[colName]
    ELSE colName

\* `"${...}"=$${idx + 1}`, idx counted from 0; k is idx + 1.
Fragment(col, k) == "\"" \o col \o "\"=$" \o ToString(k)

\* Array.prototype.join
RECURSIVE Join(_, _)
Join(strs, sep) ==
    IF Len(strs) = 0 THEN ""
    ELSE IF Len(strs) = 1 THEN strs[1]
    ELSE strs[1] \o sep \o Join(Tail(strs), sep)

\* sqlForPartialUpdate without the column-name translation.
sqlForPartialUpdate_NoMapping(dataToUpdate, jsToSql) ==
    LET keys == Object_keys(dataToUpdate) IN
    IF Len(keys) = 0
    THEN [status |-> "BadRequestError"]
    ELSE [status |-> "ok",
          setCols |-> Join([i \in 1..Len(keys) |-> Fragment(keys[i], i)], ", "),
          cols |-> [i \in 1..Len(keys) |-> [col |-> keys[i], param |-> i]],
          values |-> [i \in 1..Len(keys) |-> dataToUpdate[keys[i]]]]

\* sqlForPartialUpdate without the check for an empty mapping.
sqlForPartialUpdate_NoThrow(dataToUpdate, jsToSql) ==
    LET keys == Object_keys(dataToUpdate) IN
    [status |-> "ok",
     setCols |-> Join([i \in 1..Len(keys) |->
                         Fragment(ColumnOf(jsToSql, keys[i]), i)], ", "),
     cols |-> [i \in 1..Len(keys) |->
                 [col |-> ColumnOf(jsToSql, keys[i]), param |-> i]],
     values |-> [i \in 1..Len(keys) |-> dataToUpdate[keys[i]]]]

\* sqlForPartialUpdate numbering the parameters from 0.
sqlForPartialUpdate_FromZero(dataToUpdate, jsToSql) ==
    LET keys == Object_keys(dataToUpdate) IN
    IF Len(keys) = 0
    THEN [status |-> "BadRequestError"]
    ELSE [status |-> "ok",
          setCols |-> Join([i \in 1..Len(keys) |->
                              Fragment(ColumnOf(jsToSql, keys[i]), i - 1)], ", "),
          cols |-> [i \in 1..Len(keys) |->
                      [col |-> ColumnOf(jsToSql, keys[i]), param |-> i]],
          values |-> [i \in 1..Len(keys) |-> dataToUpdate[keys[i]]]]

\* sqlForPartialUpdate: setCols is the text that goes after SET, cols is what
\* the database reads in it (each column with the number of its parameter),
\* values is Object.values(dataToUpdate).
sqlForPartialUpdate(dataToUpdate, jsToSql) ==
    LET keys == Object_keys(dataToUpdate) IN
    IF Len(keys) = 0
    THEN [status |-> "BadRequestError"]
    ELSE [status |-> "ok",
          setCols |-> Join([i \in 1..Len(keys) |->
                              Fragment(ColumnOf(jsToSql, keys[i]), i)], ", "),
          cols |-> [i \in 1..Len(keys) |->
                      [col |-> ColumnOf(jsToSql, keys[i]), param |-> i]],
          values |-> [i \in 1..Len(keys) |-> dataToUpdate[keys[i]]]]

-----------------------------------------------------------------------------
(* models/job.js *)

\* RETURNING / SELECT title, salary, equity, company_Handle AS "companyHandle"
JobOut(r) == [title |-> r.title, salary |-> r.salary, equity |-> r.equity,
              companyHandle |-> r.company_handle]

JobOutSeq(s) == [i \in 1..Len(s) |-> JobOut(s[i])]
IdSeq(s) == [i \in 1..Len(s) |-> s[i].id]

\* Job.create with equity left out of the INSERT's column list.
Job_create_NoEquity(jtbl, ctbl, id, p) ==
    LET row == [id |-> id,
                title |-> p.title,
                salary |-> Bind(Prop(p, "salary")),
                equity |-> NULL,
                company_handle |-> p.companyHandle]
    IN  IF ForeignKeyHolds(ctbl, p.companyHandle)
        THEN [status |-> "ok", jobs |-> jtbl \cup {row}, out |-> JobOut(row), nq |-> 1]
        ELSE [status |-> "DbError", jobs |-> jtbl, out |-> NULL, nq |-> 1]

\* Job.create: one INSERT.  The serial advances whether or not the row is
\* accepted.
Job_create(jtbl, ctbl, id, p) ==
    LET row == [id |-> id,
                title |-> p.title,
                salary |-> Bind(Prop(p, "salary")),
                equity |-> Bind(Prop(p, "equity")),
                company_handle |-> p.companyHandle]
    IN  IF ForeignKeyHolds(ctbl, p.companyHandle)
        THEN [status |-> "ok", jobs |-> jtbl \cup {row}, out |-> JobOut(row), nq |-> 1]
        ELSE [status |-> "DbError", jobs |-> jtbl, out |-> NULL, nq |-> 1]

\* Job.get: rows[0] of SELECT ... WHERE id = $1.
Job_get(jtbl, id) ==
    LET rows == { r \in jtbl : r.id = id } IN
    IF rows = {}
    THEN [status |-> "NotFoundError", out |-> NULL, nq |-> 1]
    ELSE [status |-> "ok", out |-> JobOut(CHOOSE r \in rows : TRUE), nq |-> 1]

JobJsToSql == [companyHandle |-> "company_Handle"]

\* Job.update: sqlForPartialUpdate, then one UPDATE ... WHERE id = $n, which
\* the database refuses when it would leave a job without its company.
Job_update(jtbl, ctbl, id, data) ==
    LET q == sqlForPartialUpdate(data, JobJsToSql) IN
    IF q.status # "ok"
    THEN [status |-> q.status, jobs |-> jtbl, out |-> NULL, nq |-> 0]
    ELSE LET res == SqlUpdate(jtbl, JobColumns, q.cols,
                              q.values \o <<id>>, "id")
         IN  IF res.status # "ok"
             THEN [status |-> res.status, jobs |-> jtbl, out |-> NULL, nq |-> 1]
             ELSE IF \E r \in res.rows : ~ForeignKeyHolds(ctbl, r.company_handle)
             THEN [status |-> "DbError", jobs |-> jtbl, out |-> NULL, nq |-> 1]
             ELSE IF res.rows = {}
             THEN [status |-> "NotFoundError", jobs |-> jtbl, out |-> NULL, nq |-> 1]
             ELSE [status |-> "ok", jobs |-> res.tbl,
                   out |-> JobOut(CHOOSE r \in res.rows : TRUE), nq |-> 1]

\* Job.remove without the check of the deleted row.
Job_remove_NoThrow(jtbl, id) ==
    [status |-> "ok", jobs |-> jtbl \ { r \in jtbl : r.id = id }, nq |-> 1]

\* Job.remove: DELETE FROM jobs WHERE id = $1 RETURNING id.
Job_remove(jtbl, id) ==
    LET rows == { r \in jtbl : r.id = id } IN
    IF rows = {}
    THEN [status |-> "NotFoundError", jobs |-> jtbl, nq |-> 1]
    ELSE [status |-> "ok", jobs |-> jtbl \ rows, nq |-> 1]

\* Job.findAll, Job.title_filter, Job.minSalary_filter, Job.hasEquity_filter:
\* the result sets each query can return.
Job_findAll(jtbl) == OrderBy(jtbl, "title")

Job_title_filter(jtbl, str) ==
    LET lower == toLowerCase(str) IN
    OrderBy({ r \in jtbl : Like(toLowerCase(r.title), lower) }, "title")

Job_minSalary_filter(jtbl, num) ==
    OrderBy({ r \in jtbl : r.salary # NULL /\ r.salary[1] >= num }, "salary")

Job_hasEquity_filter(jtbl, hasEquity) ==
    OrderBy({ r \in jtbl : hasEquity => r.equity # NULL }, "title")

\* The intersection keeping a row whose title occurs in either of the two.
Common_Either(titleRes, minSalaryRes, equityRes) ==
    LET Keep(job) ==
            \/ \E i \in 1..Len(minSalaryRes) : minSalaryRes[i].title = job.title
            \/ \E i \in 1..Len(equityRes) : equityRes[i].title = job.title
    IN  SelectSeq(titleRes, Keep)

\* The intersection multi_filter computes: the rows of titleRes whose title
\* occurs in minSalaryRes and in equityRes.
Common(titleRes, minSalaryRes, equityRes) ==
    LET Keep(job) ==
            /\ \E i \in 1..Len(minSalaryRes) : minSalaryRes[i].title = job.title
            /\ \E i \in 1..Len(equityRes) : equityRes[i].title = job.title
    IN  SelectSeq(titleRes, Keep)

\* Job.multi_filter: the results it can return on table jtbl.
Job_multi_filter(jtbl, str, minSalary, hasEquity) ==
    { Common(titleRes, minSalaryRes, equityRes) :
        titleRes \in (IF TruthyStr(str) THEN Job_title_filter(jtbl, str[1])
                      ELSE Job_findAll(jtbl)),
        minSalaryRes \in (IF TruthyNum(minSalary)
                          THEN Job_minSalary_filter(jtbl, minSalary[1])
                          ELSE Job_findAll(jtbl)),
        equityRes \in (IF TruthyBool(hasEquity)
                       THEN Job_hasEquity_filter(jtbl, hasEquity[1])
                       ELSE Job_findAll(jtbl)) }

-----------------------------------------------------------------------------
(* models/company.js *)

\* RETURNING handle, name, description, num_employees AS "numEmployees",
\* logo_url AS "logoUrl"
CompanyOut(r) == [handle |-> r.handle, name |-> r.name,
                  description |-> r.description,
                  numEmployees |-> r.num_employees, logoUrl |-> r.logo_url]

\* Company.create, first statement: SELECT handle ... WHERE handle = $1.
Company_duplicateCheck(ctbl, handle) == \E r \in ctbl : r.handle = handle

\* Company.create, second statement: INSERT INTO companies ... RETURNING.
Company_insert(ctbl, p) ==
    LET row == [handle |-> p.handle, name |-> p.name,
                description |-> p.description,
                num_employees |-> p.numEmployees,
                logo_url |-> Bind(Prop(p, "logoUrl"))]
    IN  IF PrimaryKeyFree(ctbl, p.handle)
        THEN [status |-> "ok", companies |-> ctbl \cup {row},
              out |-> CompanyOut(row), nq |-> 2]
        ELSE [status |-> "DbError", companies |-> ctbl, out |-> NULL, nq |-> 2]

\* Company.create with no other statement between its two.
Company_create(ctbl, p) ==
    IF Company_duplicateCheck(ctbl, p.handle)
    THEN [status |-> "BadRequestError", companies |-> ctbl, out |-> NULL, nq |-> 1]
    ELSE Company_insert(ctbl, p)

Company_findAll(ctbl) == OrderBy(ctbl, "name")

Company_name_filter(ctbl, str) ==
    LET lower == toLowerCase(str) IN
    OrderBy({ r \in ctbl : Like(toLowerCase(r.name), lower) }, "name")

Company_minEmployees_filter(ctbl, num) ==
    OrderBy({ r \in ctbl : r.num_employees >= num }, "num_employees")

Company_maxEmployees_filter(ctbl, num) ==
    OrderBy({ r \in ctbl : r.num_employees <= num }, "num_employees")

CommonByName(nameResults, minResults, maxResults) ==
    LET Keep(company) ==
            /\ \E i \in 1..Len(minResults) : minResults[i].name = company.name
            /\ \E i \in 1..Len(maxResults) : maxResults[i].name = company.name
    IN  SelectSeq(nameResults, Keep)

\* Company.multi_filter: the results it can return on table ctbl.
Company_multi_filter(ctbl, str, min, max) ==
    { CommonByName(nameResults, minResults, maxResults) :
        nameResults \in (IF TruthyStr(str) THEN Company_name_filter(ctbl, str[1])
                         ELSE Company_findAll(ctbl)),
        minResults \in (IF TruthyNum(min)
                        THEN Company_minEmployees_filter(ctbl, min[1])
                        ELSE Company_findAll(ctbl)),
        maxResults \in (IF TruthyNum(max)
                        THEN Company_maxEmployees_filter(ctbl, max[1])
                        ELSE Company_findAll(ctbl)) }

\* Company.get: the company row, then its jobs ordered by title.
Company_get(ctbl, jtbl, handle) ==
    LET rows == { r \in ctbl : r.handle = handle } IN
    IF rows = {}
    THEN { [status |-> "NotFoundError", out |-> NULL, jobs |-> <<>>, nq |-> 1] }
    ELSE { [status |-> "ok", out |-> CompanyOut(CHOOSE r \in rows : TRUE),
            jobs |-> JobOutSeq(js), nq |-> 2] :
           js \in OrderBy({ j \in jtbl : j.company_handle = handle }, "title") }

CompanyJsToSql == [numEmployees |-> "num_employees", logoUrl |-> "logo_url"]

\* Company.update: sqlForPartialUpdate, then one UPDATE ... WHERE handle = $n.
Company_update(ctbl, handle, data) ==
    LET q == sqlForPartialUpdate(data, CompanyJsToSql) IN
    IF q.status # "ok"
    THEN [status |-> q.status, companies |-> ctbl, out |-> NULL, nq |-> 0]
    ELSE LET res == SqlUpdate(ctbl, CompanyColumns, q.cols,
                              q.values \o <<handle>>, "handle")
         IN  IF res.status # "ok"
             THEN [status |-> res.status, companies |-> ctbl, out |-> NULL, nq |-> 1]
             ELSE IF res.rows = {}
             THEN [status |-> "NotFoundError", companies |-> ctbl,
                   out |-> NULL, nq |-> 1]
             ELSE [status |-> "ok", companies |-> res.tbl,
                   out |-> CompanyOut(CHOOSE r \in res.rows : TRUE), nq |-> 1]

\* Company.remove: DELETE FROM companies WHERE handle = $1 RETURNING handle;
\* the schema deletes the company's jobs with it.
Company_remove(ctbl, jtbl, handle) ==
    LET rows == { r \in ctbl : r.handle = handle } IN
    IF rows = {}
    THEN [status |-> "NotFoundError", companies |-> ctbl, jobs |-> jtbl, nq |-> 1]
    ELSE [status |-> "ok", companies |-> ctbl \ rows,
          jobs |-> OnDeleteCascade(jtbl, handle), nq |-> 1]

-----------------------------------------------------------------------------
(* The inputs calls are made with.  A behaviour varies one part of the      *)
(* store: in workload "jobs" the jobs (of one company), in "companies" the  *)
(* companies (without jobs), in "links" which job belongs to which company. *)

Workloads == {"jobs", "companies", "links"}

Restrict(f, K) == [k \in K |-> f[k]]

CompanyNames == {<<"j", "1">>, <<"J", "2">>}

FixedCompany(h) ==
    [handle |-> h, name |-> <<"j", "1">>, description |-> "d1", numEmployees |-> 1]

\* Job.create payloads: title and companyHandle, salary and equity optional.
JobPayloads(w) ==
    CASE w = "jobs" ->
           { Restrict(f, {"title", "companyHandle"} \cup K) :
               f \in [title : Titles, salary : {Some(1000), Some(2000)},
                      equity : {Some("0.5")}, companyHandle : {"c1"}],
               K \in SUBSET {"salary", "equity"} }
           \cup { [title |-> <<"j", "1">>, companyHandle |-> "c2"] }
      [] w = "links" ->
           { [title |-> <<"j", "1">>, companyHandle |-> h] : h \in Handles }
      [] OTHER -> {}

JobIdArgs(w) == IF w \in {"jobs", "links"} THEN JobIds ELSE {}

\* Job.update data: any subset of the fields, and two that name companyHandle;
\* in "links" the company, by the name of the field and by that of the column.
JobUpdateData(w) ==
    CASE w = "jobs" ->
           { Restrict(f, K) :
               f \in [title : Titles, salary : Salaries, equity : Equities],
               K \in SUBSET {"title", "salary", "equity"} }
           \cup { [companyHandle |-> "c1"],
                  [title |-> <<"J", "2">>, companyHandle |-> "c1"] }
      [] w = "links" -> { [companyHandle |-> h] : h \in Handles }
                        \cup { [company_handle |-> h] : h \in Handles }
      [] OTHER -> {}

JobFilterArgs(w) ==
    IF w = "jobs" THEN StrArgs \X MinArgs \X EquityArgs ELSE {}

\* Company.create payloads: logoUrl optional.
CompanyPayloads(w) ==
    CASE w = "companies" ->
           { Restrict(f, {"handle", "name", "description", "numEmployees"} \cup K) :
               f \in [handle : Handles, name : CompanyNames,
                      description : {"d1", "d2"}, numEmployees : {1, 2},
                      logoUrl : {Some("u1")}],
               K \in SUBSET {"logoUrl"} }
      [] w = "links" -> { FixedCompany(h) : h \in Handles }
      [] OTHER -> { FixedCompany("c1") }

CompanyUpdateData(w) ==
    IF w = "companies"
    THEN { Restrict(f, K) :
             f \in [name : CompanyNames, description : {"d1", "d2"},
                    numEmployees : {1, 2}, logoUrl : {NULL, Some("u1")}],
             K \in SUBSET {"name", "description", "numEmployees", "logoUrl"} }
    ELSE {}

EmployeeArgs == {Undefined, Some(1), Some(2)}

CompanyFilterArgs(w) ==
    IF w = "companies" THEN StrArgs \X EmployeeArgs \X EmployeeArgs ELSE {}

-----------------------------------------------------------------------------
(* Calls of the data-access layer, each a whole call.  Calls are made one   *)
(* at a time, as the tests await each: the outcome of a call is taken       *)
(* (Acknowledge) before the next call is made.                              *)

NoCall == [op |-> "none", status |-> "ok"]

Idle == last = NoCall

Acknowledge ==
    /\ ~Idle
    /\ last' = NoCall
    /\ UNCHANGED <<companies, jobs, nextId, inflight, workload>>

CallJobCreate(p) ==
    /\ Idle
    /\ nextId <= MaxJobId
    /\ LET r == Job_create(jobs, companies, nextId, p) IN
       /\ jobs' = r.jobs
       /\ nextId' = nextId + 1
       /\ last' = [op |-> "Job.create", arg |-> p, id |-> nextId,
                   status |-> r.status, out |-> r.out, nq |-> r.nq]
    /\ UNCHANGED <<companies, inflight, workload>>

CallJobGet(id) ==
    /\ Idle
    /\ LET r == Job_get(jobs, id) IN
       last' = [op |-> "Job.get", id |-> id, status |-> r.status,
                out |-> r.out, nq |-> r.nq]
    /\ UNCHANGED <<companies, jobs, nextId, inflight, workload>>

CallJobUpdate(id, data) ==
    /\ Idle
    /\ LET r == Job_update(jobs, companies, id, data) IN
       /\ jobs' = r.jobs
       /\ last' = [op |-> "Job.update", id |-> id, arg |-> data,
                   status |-> r.status, out |-> r.out, nq |-> r.nq]
    /\ UNCHANGED <<companies, nextId, inflight, workload>>

CallJobRemove(id) ==
    /\ Idle
    /\ LET r == Job_remove(jobs, id) IN
       /\ jobs' = r.jobs
       /\ last' = [op |-> "Job.remove", id |-> id, status |-> r.status, nq |-> r.nq]
    /\ UNCHANGED <<companies, nextId, inflight, workload>>

CallJobMultiFilter(str, minSalary, hasEquity) ==
    /\ Idle
    /\ \E res \in Job_multi_filter(jobs, str, minSalary, hasEquity) :
          last' = [op |-> "Job.multi_filter", str |-> str, min |-> minSalary,
                   hasEquity |-> hasEquity, status |-> "ok",
                   ids |-> IdSeq(res), out |-> JobOutSeq(res), nq |-> 3]
    /\ UNCHANGED <<companies, jobs, nextId, inflight, workload>>

CallCompanyCreate(p) ==
    /\ Idle
    /\ LET r == Company_create(companies, p) IN
       /\ companies' = r.companies
       /\ last' = [op |-> "Company.create", arg |-> p, status |-> r.status,
                   out |-> r.out, nq |-> r.nq]
    /\ UNCHANGED <<jobs, nextId, inflight, workload>>

CallCompanyGet(handle) ==
    /\ Idle
    /\ \E r \in Company_get(companies, jobs, handle) :
          last' = [op |-> "Company.get", handle |-> handle, status |-> r.status,
                   out |-> r.out, jobs |-> r.jobs, nq |-> r.nq]
    /\ UNCHANGED <<companies, jobs, nextId, inflight, workload>>

CallCompanyUpdate(handle, data) ==
    /\ Idle
    /\ LET r == Company_update(companies, handle, data) IN
       /\ companies' = r.companies
       /\ last' = [op |-> "Company.update", handle |-> handle, arg |-> data,
                   status |-> r.status, out |-> r.out, nq |-> r.nq]
    /\ UNCHANGED <<jobs, nextId, inflight, workload>>

CallCompanyRemove(handle) ==
    /\ Idle
    /\ LET r == Company_remove(companies, jobs, handle) IN
       /\ companies' = r.companies
       /\ jobs' = r.jobs
       /\ last' = [op |-> "Company.remove", handle |-> handle,
                   status |-> r.status, nq |-> r.nq]
    /\ UNCHANGED <<nextId, inflight, workload>>

CallCompanyMultiFilter(str, min, max) ==
    /\ Idle
    /\ \E res \in Company_multi_filter(companies, str, min, max) :
          last' = [op |-> "Company.multi_filter", str |-> str, min |-> min,
                   max |-> max, status |-> "ok",
                   out |-> [i \in 1..Len(res) |-> CompanyOut(res[i])], nq |-> 3]
    /\ UNCHANGED <<companies, jobs, nextId, inflight, workload>>

Init ==
    /\ companies = {}
    /\ jobs = {}
    /\ nextId = 1
    /\ inflight = {}
    /\ last = NoCall
    /\ workload \in Workloads

Next ==
    \/ \E p \in JobPayloads(workload) : CallJobCreate(p)
    \/ \E id \in JobIdArgs(workload) : CallJobGet(id)
    \/ \E id \in JobIdArgs(workload), data \in JobUpdateData(workload) :
          CallJobUpdate(id, data)
    \/ \E id \in JobIdArgs(workload) : CallJobRemove(id)
    \/ \E a \in JobFilterArgs(workload) : CallJobMultiFilter(a[1], a[2], a[3])
    \/ \E p \in CompanyPayloads(workload) : CallCompanyCreate(p)
    \/ \E h \in Handles : CallCompanyGet(h)
    \/ \E h \in Handles, data \in CompanyUpdateData(workload) : CallCompanyUpdate(h, data)
    \/ \E h \in Handles : CallCompanyRemove(h)
    \/ \E a \in CompanyFilterArgs(workload) : CallCompanyMultiFilter(a[1], a[2], a[3])
    \/ Acknowledge

Spec == Init /\ [][Next]_vars

-----------------------------------------------------------------------------
(* routes/jobs.js, with the middleware, the schemas and the error handler   *)
(* it requires.  A request is a whole run of its route: the middleware      *)
(* chain, the validation, the call of the model and the response.           *)

Callers == {"anon", "user", "admin"}

\* middleware/auth.js
ensureLoggedIn(caller) == IF caller = "anon" THEN "UnauthorizedError" ELSE "ok"

isAdmin(caller) == IF caller = "admin" THEN "ok" ELSE "UnauthorizedError"

Middleware(name, caller) ==
    CASE name = "ensureLoggedIn" -> ensureLoggedIn(caller)
      [] name = "isAdmin" -> isAdmin(caller)

\* Express runs the chain in order; the first middleware that calls
\* next(err) ends it.
RECURSIVE RunChain(_, _)
RunChain(chain, caller) ==
    IF chain = <<>>
    THEN "ok"
    ELSE LET s == Middleware(Head(chain), caller) IN
         IF s # "ok" THEN s ELSE RunChain(Tail(chain), caller)

\* The middleware each mutation route of the router names.
JobsPostChain == <<"ensureLoggedIn", "isAdmin">>

JobsPatchChain == <<"ensureLoggedIn", "isAdmin">>

\* DELETE /:id with the admin check left out.
JobsDeleteChain_NoAdmin == <<"ensureLoggedIn">>

JobsDeleteChain == <<"ensureLoggedIn", "isAdmin">>

\* schemas/jobNew.json and schemas/jobUpdate.json: the keys a body may have
\* and the ones it must have.
SchemaKeys(schema) ==
    CASE schema = "jobNew" -> {"title", "salary", "equity", "companyHandle"}
      [] schema = "jobUpdate" -> {"title", "salary", "equity"}
      [] schema = "companyNew" ->
           {"handle", "name", "description", "numEmployees", "logoUrl"}

SchemaRequired(schema) ==
    CASE schema = "jobNew" -> {"title", "companyHandle"}
      [] schema = "jobUpdate" -> {}
      [] schema = "companyNew" -> {"handle", "name", "description", "numEmployees"}

\* jsonschema.validate(body, schema).valid
Validate(body, schema) ==
    /\ DOMAIN body \subseteq SchemaKeys(schema)
    /\ SchemaRequired(schema) \subseteq DOMAIN body

\* The schema each route validates its body against.
JobsPostSchema == "jobNew"

\* PATCH /:id validating against the schema of POST /.
JobsPatchSchema_New == "jobNew"

JobsPatchSchema == "jobUpdate"

\* The error handler of app.js: the status of the response to an error.
ErrorStatus(kind) ==
    CASE kind = "BadRequestError" -> 400
      [] kind = "UnauthorizedError" -> 401
      [] kind = "NotFoundError" -> 404
      [] OTHER -> 500

\* What happens before the handler's call of the model: the middleware
\* chain, then the validation of the body.
BeforeModel(chain, caller, body, schema) ==
    LET auth == RunChain(chain, caller) IN
    IF auth # "ok" THEN auth
    ELSE IF ~Validate(body, schema) THEN "BadRequestError"
    ELSE "ok"

\* POST /jobs
PostJobs(caller, body) ==
    /\ Idle
    /\ LET pre == BeforeModel(JobsPostChain, caller, body, JobsPostSchema) IN
       IF pre # "ok"
       THEN /\ last' = [op |-> "POST /jobs", caller |-> caller, body |-> body,
                        http |-> ErrorStatus(pre), called |-> FALSE, nq |-> 0]
            /\ UNCHANGED <<jobs, nextId>>
       ELSE /\ nextId <= MaxJobId
            /\ LET r == Job_create(jobs, companies, nextId, body) IN
               /\ jobs' = r.jobs
               /\ nextId' = nextId + 1
               /\ last' = [op |-> "POST /jobs", caller |-> caller, body |-> body,
                           http |-> IF r.status = "ok" THEN 201
                                    ELSE ErrorStatus(r.status),
                           called |-> TRUE, nq |-> r.nq]
    /\ UNCHANGED <<companies, inflight, workload>>

\* PATCH /jobs/:id
PatchJobs(caller, id, body) ==
    /\ Idle
    /\ LET pre == BeforeModel(JobsPatchChain, caller, body, JobsPatchSchema) IN
       IF pre # "ok"
       THEN /\ last' = [op |-> "PATCH /jobs/:id", caller |-> caller, id |-> id,
                        body |-> body, http |-> ErrorStatus(pre),
                        called |-> FALSE, nq |-> 0]
            /\ UNCHANGED jobs
       ELSE LET r == Job_update(jobs, companies, id, body) IN
            /\ jobs' = r.jobs
            /\ last' = [op |-> "PATCH /jobs/:id", caller |-> caller, id |-> id,
                        body |-> body,
                        http |-> IF r.status = "ok" THEN 200
                                 ELSE ErrorStatus(r.status),
                        called |-> TRUE, nq |-> r.nq]
    /\ UNCHANGED <<companies, nextId, inflight, workload>>

\* DELETE /jobs/:id
DeleteJobs(caller, id) ==
    /\ Idle
    /\ LET pre == RunChain(JobsDeleteChain, caller) IN
       IF pre # "ok"
       THEN /\ last' = [op |-> "DELETE /jobs/:id", caller |-> caller, id |-> id,
                        http |-> ErrorStatus(pre), called |-> FALSE, nq |-> 0]
            /\ UNCHANGED jobs
       ELSE LET r == Job_remove(jobs, id) IN
            /\ jobs' = r.jobs
            /\ last' = [op |-> "DELETE /jobs/:id", caller |-> caller, id |-> id,
                        http |-> IF r.status = "ok" THEN 200
                                 ELSE ErrorStatus(r.status),
                        called |-> TRUE, nq |-> r.nq]
    /\ UNCHANGED <<companies, nextId, inflight, workload>>

\* GET /jobs/:id
GetJob(id) ==
    /\ Idle
    /\ LET r == Job_get(jobs, id) IN
       last' = [op |-> "GET /jobs/:id", id |-> id,
                http |-> IF r.status = "ok" THEN 200 ELSE ErrorStatus(r.status),
                out |-> r.out, called |-> TRUE, nq |-> r.nq]
    /\ UNCHANGED <<companies, jobs, nextId, inflight, workload>>

\* routes/companies.js, POST /companies
PostCompanies(caller, body) ==
    /\ Idle
    /\ LET pre == BeforeModel(<<"ensureLoggedIn", "isAdmin">>, caller, body,
                              "companyNew") IN
       IF pre # "ok"
       THEN /\ last' = [op |-> "POST /companies", caller |-> caller, body |-> body,
                        http |-> ErrorStatus(pre), called |-> FALSE, nq |-> 0]
            /\ UNCHANGED companies
       ELSE LET r == Company_create(companies, body) IN
            /\ companies' = r.companies
            /\ last' = [op |-> "POST /companies", caller |-> caller, body |-> body,
                        http |-> IF r.status = "ok" THEN 201
                                 ELSE ErrorStatus(r.status),
                        called |-> TRUE, nq |-> r.nq]
    /\ UNCHANGED <<jobs, nextId, inflight, workload>>

\* GET /companies with the check of the range left out.
GetCompanies_NoRangeCheck(name, min, max) ==
    /\ Idle
    /\ \E res \in Company_multi_filter(companies, name, min, max) :
          last' = [op |-> "GET /companies", name |-> name, min |-> min,
                   max |-> max, http |-> 200, called |-> TRUE, nq |-> 3,
                   handles |-> [i \in 1..Len(res) |-> res[i].handle]]
    /\ UNCHANGED <<companies, jobs, nextId, inflight, workload>>

\* routes/companies.js, GET /companies: a range with min > max is answered
\* 400 before the model is called.
GetCompanies(name, min, max) ==
    /\ Idle
    /\ IF min # Undefined /\ max # Undefined /\ min[1] > max[1]
       THEN last' = [op |-> "GET /companies", name |-> name, min |-> min,
                     max |-> max, http |-> ErrorStatus("BadRequestError"),
                     called |-> FALSE, nq |-> 0, handles |-> <<>>]
       ELSE \E res \in Company_multi_filter(companies, name, min, max) :
               last' = [op |-> "GET /companies", name |-> name, min |-> min,
                        max |-> max, http |-> 200, called |-> TRUE, nq |-> 3,
                        handles |-> [i \in 1..Len(res) |-> res[i].handle]]
    /\ UNCHANGED <<companies, jobs, nextId, inflight, workload>>

\* The bodies and parameters of the requests.
PostJobsBodies ==
    { [title |-> <<"j", "1">>, companyHandle |-> "c1"],
      [title |-> <<"J", "2">>, salary |-> Some(1000), equity |-> Some("0.5"),
       companyHandle |-> "c1"],
      [title |-> <<"j", "1">>, companyHandle |-> "c2"],
      [title |-> <<"j", "1">>],
      <<>> }

PatchJobsBodies ==
    { [title |-> <<"J", "2">>],
      [salary |-> NULL, equity |-> Some("0.5")],
      <<>>,
      [companyHandle |-> "c2"],
      [title |-> <<"J", "2">>, companyHandle |-> "c1"],
      [id |-> MaxJobId + 1],
      [id |-> 1, title |-> <<"J", "2">>],
      [handle |-> "new"] }

PostCompaniesBodies ==
    { FixedCompany("c1"),
      [FixedCompany("c2") EXCEPT !.numEmployees = 2],
      [handle |-> "c2"] }

InitHttp ==
    /\ companies = {}
    /\ jobs = {}
    /\ nextId = 1
    /\ inflight = {}
    /\ last = NoCall
    /\ workload = "http"

NextHttp ==
    \/ \E c \in Callers, b \in PostJobsBodies : PostJobs(c, b)
    \/ \E c \in Callers, id \in JobIds, b \in PatchJobsBodies : PatchJobs(c, id, b)
    \/ \E c \in Callers, id \in JobIds : DeleteJobs(c, id)
    \/ \E id \in JobIds : GetJob(id)
    \/ \E c \in Callers, b \in PostCompaniesBodies : PostCompanies(c, b)
    \/ \E n \in {Undefined, Some(<<"J">>)}, min \in EmployeeArgs, max \in EmployeeArgs :
          GetCompanies(n, min, max)
    \/ Acknowledge

SpecHttp == InitHttp /\ [][NextHttp]_vars

-----------------------------------------------------------------------------
(* helpers/sql.js called on its own, as helpers/sql.test.js does. *)

SqlKeys == {"title", "companyHandle", "numEmployees"}

SqlValues == {"Aliya", "32"}

\* The field mappings: any keys, any values.
SqlData == UNION { [K -> SqlValues] : K \in SUBSET SqlKeys }

\* The column mappings: entries for some of the keys and for a key the data
\* never has, each a column name or the empty string.
SqlMappings ==
    UNION { [K -> {"company_handle", ""}] :
              K \in SUBSET {"companyHandle", "numEmployees", "logoUrl"} }

CallSqlForPartialUpdate(d, m) ==
    /\ Idle
    /\ LET q == sqlForPartialUpdate(d, m) IN
       last' = IF q.status = "ok"
               THEN [op |-> "sqlForPartialUpdate", d |-> d, m |-> m,
                     status |-> "ok", setCols |-> q.setCols, values |-> q.values]
               ELSE [op |-> "sqlForPartialUpdate", d |-> d, m |-> m,
                     status |-> q.status, setCols |-> "", values |-> <<>>]
    /\ UNCHANGED <<companies, jobs, nextId, inflight, workload>>

InitSql ==
    /\ companies = {}
    /\ jobs = {}
    /\ nextId = 1
    /\ inflight = {}
    /\ last = NoCall
    /\ workload = "sql"

NextSql ==
    \/ \E d \in SqlData, m \in SqlMappings : CallSqlForPartialUpdate(d, m)
    \/ Acknowledge

SpecSql == InitSql /\ [][NextSql]_vars

-----------------------------------------------------------------------------
(* Company.create by concurrent requests.  Each await of db.query is a      *)
(* point where another request's statements can run, and no transaction     *)
(* joins the two statements of Company.create: a request that has passed    *)
(* the duplicate check is in flight until its INSERT runs.                  *)

Procs == {"p1", "p2"}

RacePayloads ==
    { [FixedCompany(h) EXCEPT !.numEmployees = n] : h \in Handles, n \in {1, 2} }

InFlight(proc) == { e \in inflight : e.proc = proc }

\* const duplicateCheck = await db.query(...); if (duplicateCheck.rows[0]) throw
CreateCheck(proc, p) ==
    /\ InFlight(proc) = {}
    /\ IF Company_duplicateCheck(companies, p.handle)
       THEN /\ last' = [op |-> "Company.create", proc |-> proc, arg |-> p,
                        status |-> "BadRequestError",
                        http |-> ErrorStatus("BadRequestError"),
                        existed |-> TRUE, stored |-> FALSE, nq |-> 1]
            /\ UNCHANGED inflight
       ELSE /\ inflight' = inflight \cup {[proc |-> proc, arg |-> p]}
            /\ last' = [op |-> "duplicateCheck", proc |-> proc, arg |-> p,
                        status |-> "ok"]
    /\ UNCHANGED <<companies, jobs, nextId, workload>>

\* const result = await db.query(`INSERT INTO companies ...`); return company
CreateInsert(proc) ==
    /\ \E e \in InFlight(proc) :
          LET r == Company_insert(companies, e.arg) IN
          /\ companies' = r.companies
          /\ inflight' = inflight \ {e}
          /\ last' = [op |-> "Company.create", proc |-> proc, arg |-> e.arg,
                      status |-> r.status,
                      http |-> IF r.status = "ok" THEN 201
                               ELSE ErrorStatus(r.status),
                      existed |-> ~PrimaryKeyFree(companies, e.arg.handle),
                      stored |-> r.companies # companies, nq |-> r.nq]
    /\ UNCHANGED <<jobs, nextId, workload>>

\* Company.remove by a request of its own.
RaceRemove(proc, handle) ==
    /\ InFlight(proc) = {}
    /\ LET r == Company_remove(companies, jobs, handle) IN
       /\ companies' = r.companies
       /\ jobs' = r.jobs
       /\ last' = [op |-> "Company.remove", proc |-> proc, handle |-> handle,
                   status |-> r.status, nq |-> r.nq]
    /\ UNCHANGED <<nextId, inflight, workload>>

InitRace ==
    /\ companies = {}
    /\ jobs = {}
    /\ nextId = 1
    /\ inflight = {}
    /\ last = NoCall
    /\ workload = "race"

NextRace ==
    \/ \E proc \in Procs, p \in RacePayloads : CreateCheck(proc, p)
    \/ \E proc \in Procs : CreateInsert(proc)
    \/ \E proc \in Procs, h \in Handles : RaceRemove(proc, h)

SpecRace == InitRace /\ [][NextRace]_vars

-----------------------------------------------------------------------------
(* Job.multi_filter while other requests write.  Its three queries are      *)
(* three awaits with no transaction around them, so statements of other     *)
(* requests can run between them.  The request in flight keeps the rows     *)
(* its queries have returned so far.                                        *)

TitlesDistinct(jtbl) == \A a, b \in jtbl : a.title = b.title => a = b

\* The writes of the other requests.
WriterPayloads ==
    { [title |-> t, salary |-> Some(1000), companyHandle |-> "c1"] : t \in Titles }

WriterUpdateData ==
    { [salary |-> Some(2000)], [salary |-> Some(1000), equity |-> Some("0.5")],
      [equity |-> NULL] }

FilterArgs == {Undefined} \X {Some(2000)} \X {Undefined, Some(TRUE)}

\* Whether the titles stay pairwise distinct while the request is in flight.
Observe(jtbl) ==
    { [e EXCEPT !.distinct = e.distinct /\ TitlesDistinct(jtbl)] : e \in inflight }

\* const titleRes = str ? await Job.title_filter(str) : await Job.findAll();
FilterTitleQuery(str, minSalary, hasEquity) ==
    /\ inflight = {}
    /\ \E res \in (IF TruthyStr(str) THEN Job_title_filter(jobs, str[1])
                   ELSE Job_findAll(jobs)) :
          inflight' = {[pc |-> "minSalary", str |-> str, min |-> minSalary,
                        hasEquity |-> hasEquity, titleRes |-> res,
                        minSalaryRes |-> <<>>, distinct |-> TitlesDistinct(jobs)]}
    /\ last' = NoCall
    /\ UNCHANGED <<companies, jobs, nextId, workload>>

\* const minSalaryRes = minSalary ? await Job.minSalary_filter(minSalary) : ...
FilterMinSalaryQuery ==
    /\ \E e \in inflight :
          /\ e.pc = "minSalary"
          /\ \E res \in (IF TruthyNum(e.min) THEN Job_minSalary_filter(jobs, e.min[1])
                         ELSE Job_findAll(jobs)) :
                inflight' = {[e EXCEPT !.pc = "equity", !.minSalaryRes = res]}
    /\ UNCHANGED <<companies, jobs, nextId, last, workload>>

\* const equityRes = ...; const common = titleRes.filter(...); return common;
FilterEquityQuery ==
    /\ \E e \in inflight :
          /\ e.pc = "equity"
          /\ \E res \in (IF TruthyBool(e.hasEquity)
                         THEN Job_hasEquity_filter(jobs, e.hasEquity[1])
                         ELSE Job_findAll(jobs)) :
                LET common == Common(e.titleRes, e.minSalaryRes, res) IN
                last' = [op |-> "Job.multi_filter", str |-> e.str, min |-> e.min,
                         hasEquity |-> e.hasEquity, status |-> "ok",
                         ids |-> IdSeq(common), out |-> JobOutSeq(common),
                         distinct |-> e.distinct, nq |-> 3]
    /\ inflight' = {}
    /\ UNCHANGED <<companies, jobs, nextId, workload>>

\* The rows are made before the request that filters starts.
WriterCompanyCreate ==
    /\ inflight = {}
    /\ companies' = Company_create(companies, FixedCompany("c1")).companies
    /\ companies' # companies
    /\ UNCHANGED <<jobs, nextId, inflight, last, workload>>

WriterJobCreate(p) ==
    /\ inflight = {}
    /\ nextId <= MaxJobId
    /\ jobs' = Job_create(jobs, companies, nextId, p).jobs
    /\ nextId' = nextId + 1
    /\ UNCHANGED <<companies, inflight, last, workload>>

WriterJobUpdate(id, data) ==
    /\ jobs' = Job_update(jobs, companies, id, data).jobs
    /\ jobs' # jobs
    /\ inflight' = Observe(jobs')
    /\ UNCHANGED <<companies, nextId, last, workload>>

WriterJobRemove(id) ==
    /\ jobs' = Job_remove(jobs, id).jobs
    /\ jobs' # jobs
    /\ inflight' = Observe(jobs')
    /\ UNCHANGED <<companies, nextId, last, workload>>

InitInterleaved ==
    /\ companies = {}
    /\ jobs = {}
    /\ nextId = 1
    /\ inflight = {}
    /\ last = NoCall
    /\ workload = "interleaved"

NextInterleaved ==
    \/ \E a \in FilterArgs : FilterTitleQuery(a[1], a[2], a[3])
    \/ FilterMinSalaryQuery
    \/ FilterEquityQuery
    \/ WriterCompanyCreate
    \/ \E p \in WriterPayloads : WriterJobCreate(p)
    \/ \E id \in JobIds, data \in WriterUpdateData : WriterJobUpdate(id, data)
    \/ \E id \in JobIds : WriterJobRemove(id)

SpecInterleaved == InitInterleaved /\ [][NextInterleaved]_vars

-----------------------------------------------------------------------------
(* Properties of Job.multi_filter *)

Range(f) == { f[i] : i \in DOMAIN f }

\* Whether row r satisfies every criterion multi_filter was given.
SatisfiesAll(r, str, minSalary, hasEquity) ==
    /\ TruthyStr(str) => Like(toLowerCase(r.title), toLowerCase(str[1]))
    /\ TruthyNum(minSalary) => (r.salary # NULL /\ r.salary[1] >= minSalary[1])
    /\ TruthyBool(hasEquity) => r.equity # NULL

IsFilter == last.op = "Job.multi_filter"

\* C1: Job.multi_filter returns the intersection of the per-criterion row
\* sets by job id: a job is returned if and only if that job itself satisfies
\* every supplied criterion, also when jobs share a title.
C1_IntersectionById ==
    IsFilter =>
        Range(last.ids) =
            { r.id : r \in { j \in jobs :
                               SatisfiesAll(j, last.str, last.min, last.hasEquity) } }

\* C2: with only minSalary = m supplied, Job.multi_filter returns exactly the
\* jobs whose salary is >= m (none with a lower or NULL salary, every one with
\* salary >= m), and in one order only.
C2_MinSalaryExact ==
    (IsFilter /\ ~TruthyStr(last.str) /\ TruthyNum(last.min)
              /\ ~TruthyBool(last.hasEquity)) =>
        /\ Range(last.ids) =
              { r.id : r \in { j \in jobs :
                                 j.salary # NULL /\ j.salary[1] >= last.min[1] } }
        /\ Cardinality(Job_multi_filter(jobs, last.str, last.min, last.hasEquity)) = 1

\* C3: with only hasEquity = true supplied, Job.multi_filter returns exactly
\* the jobs whose equity is not NULL.
C3_HasEquityExact ==
    (IsFilter /\ ~TruthyStr(last.str) /\ ~TruthyNum(last.min)
              /\ TruthyBool(last.hasEquity)) =>
        Range(last.ids) = { r.id : r \in { j \in jobs : j.equity # NULL } }

-----------------------------------------------------------------------------
(* Properties of create, update and remove *)

JobsWithId(jtbl, id) == { r \in jtbl : r.id = id }
CompaniesWithHandle(ctbl, h) == { r \in ctbl : r.handle = h }

\* The fields a partial update may carry (the identifiers are not among them).
JobUpdatable == {"title", "salary", "equity"}
CompanyUpdatable == {"name", "description", "numEmployees", "logoUrl"}

\* Entity new is entity old with exactly the fields of data overwritten.
Overwrites(old, new, data) ==
    \A k \in DOMAIN old : new[k] = IF k \in DOMAIN data THEN data[k] ELSE old[k]

\* C4: a partial update of an existing job or company with a non-empty data
\* mapping over the updatable fields overwrites every field present in data
\* with the supplied value (NULL included), keeps every absent field, changes
\* no other row, and returns the updated entity.
C4_PartialUpdate ==
    [][ /\ ( /\ last'.op = "Job.update"
             /\ JobsWithId(jobs, last'.id) # {}
             /\ DOMAIN last'.arg # {}
             /\ DOMAIN last'.arg \subseteq JobUpdatable )
           => \E old \in jobs, new \in jobs' :
                 /\ old.id = last'.id /\ new.id = old.id
                 /\ jobs' = (jobs \ {old}) \cup {new}
                 /\ Overwrites(JobOut(old), JobOut(new), last'.arg)
                 /\ last'.status = "ok" /\ last'.out = JobOut(new)
        /\ ( /\ last'.op = "Company.update"
             /\ CompaniesWithHandle(companies, last'.handle) # {}
             /\ DOMAIN last'.arg # {}
             /\ DOMAIN last'.arg \subseteq CompanyUpdatable )
           => \E old \in companies, new \in companies' :
                 /\ old.handle = last'.handle /\ new.handle = old.handle
                 /\ companies' = (companies \ {old}) \cup {new}
                 /\ Overwrites(CompanyOut(old), CompanyOut(new), last'.arg)
                 /\ last'.status = "ok" /\ last'.out = CompanyOut(new)
                 /\ jobs' = jobs
      ]_vars

\* A job update that sets salary to NULL and leaves the title alone, with
\* another job in the table.
C4_Witness ==
    /\ last.op = "Job.update" /\ last.status = "ok"
    /\ "title" \notin DOMAIN last.arg
    /\ "salary" \in DOMAIN last.arg /\ last.arg.salary = NULL
    /\ \E r \in jobs : r.id = last.id /\ r.title = <<"j", "1">>
    /\ \E r \in jobs : r.id # last.id /\ r.salary # NULL

\* C5: Job.create with a payload naming an existing company, and
\* Company.create with a handle not yet present, return an entity equal to
\* the payload (an omitted optional field comes back NULL), and a get by the
\* entity's key then returns that entity.
C5_CreateThenGet ==
    [][ /\ ( /\ last'.op = "Job.create"
             /\ ForeignKeyHolds(companies, last'.arg.companyHandle) )
           => /\ last'.status = "ok"
              /\ \A k \in DOMAIN last'.out :
                    last'.out[k] = IF k \in DOMAIN last'.arg THEN last'.arg[k] ELSE NULL
              /\ Job_get(jobs', last'.id).status = "ok"
              /\ Job_get(jobs', last'.id).out = last'.out
        /\ ( /\ last'.op = "Company.create"
             /\ CompaniesWithHandle(companies, last'.arg.handle) = {} )
           => /\ last'.status = "ok"
              /\ \A k \in DOMAIN last'.out :
                    last'.out[k] = IF k \in DOMAIN last'.arg THEN last'.arg[k] ELSE NULL
              /\ \A g \in Company_get(companies', jobs', last'.arg.handle) :
                    g.status = "ok" /\ g.out = last'.out /\ g.jobs = <<>>
      ]_vars

\* A job created with salary and without equity, as the second job.
C5_Witness ==
    /\ last.op = "Job.create" /\ last.status = "ok" /\ last.id = 2
    /\ "salary" \in DOMAIN last.arg /\ "equity" \notin DOMAIN last.arg
    /\ \E r \in jobs : r.id = 2 /\ r.salary = last.arg.salary /\ r.equity = NULL

\* C6: removing a key that does not exist fails with NotFoundError and leaves
\* the table unchanged; removing an existing key deletes exactly that row, and
\* a get or remove of the same key then fails with NotFoundError.
C6_Remove ==
    [][ /\ last'.op = "Job.remove" =>
              IF JobsWithId(jobs, last'.id) = {}
              THEN last'.status = "NotFoundError" /\ jobs' = jobs
              ELSE /\ last'.status = "ok"
                   /\ jobs' = jobs \ JobsWithId(jobs, last'.id)
                   /\ Cardinality(jobs') = Cardinality(jobs) - 1
                   /\ Job_get(jobs', last'.id).status = "NotFoundError"
                   /\ Job_remove(jobs', last'.id).status = "NotFoundError"
        /\ last'.op = "Company.remove" =>
              IF CompaniesWithHandle(companies, last'.handle) = {}
              THEN /\ last'.status = "NotFoundError"
                   /\ companies' = companies /\ jobs' = jobs
              ELSE /\ last'.status = "ok"
                   /\ companies' = companies \ CompaniesWithHandle(companies, last'.handle)
                   /\ Cardinality(companies') = Cardinality(companies) - 1
                   /\ \A g \in Company_get(companies', jobs', last'.handle) :
                         g.status = "NotFoundError"
                   /\ Company_remove(companies', jobs', last'.handle).status
                         = "NotFoundError"
      ]_vars

\* A job removed while another job stays.
C6_Witness ==
    /\ last.op = "Job.remove" /\ last.status = "ok"
    /\ jobs # {} /\ \A r \in jobs : r.id # last.id
    /\ nextId > last.id

-----------------------------------------------------------------------------
(* Properties of the routes *)

JobsMutationRoutes == {"POST /jobs", "PATCH /jobs/:id", "DELETE /jobs/:id"}

\* C7: on POST /jobs, PATCH /jobs/:id and DELETE /jobs/:id a request of an
\* anonymous caller or of a logged-in caller without the admin claim is
\* answered 401 and leaves the jobs table unchanged; Job.create, Job.update
\* and Job.remove are reached only for admin callers.
C7_MutationNeedsAdmin ==
    [][ last'.op \in JobsMutationRoutes =>
          /\ last'.caller # "admin" =>
                /\ last'.http = 401
                /\ jobs' = jobs /\ nextId' = nextId
                /\ last'.nq = 0
          /\ last'.called => last'.caller = "admin"
      ]_vars

\* A logged-in caller without the admin claim asked to delete a job that
\* exists, and the job is still there.
C7_Witness ==
    /\ last.op = "DELETE /jobs/:id" /\ last.caller = "user"
    /\ last.http = 401
    /\ JobsWithId(jobs, last.id) # {}

\* The identifier fields of a job.
JobIdentifiers == {"id", "companyHandle"}

\* C8: a PATCH of a job whose body names the job's id or its companyHandle
\* is answered 400 and leaves the stored job unchanged.
C8_IdentifiersImmutable ==
    [][ ( /\ last'.op = "PATCH /jobs/:id"
          /\ last'.caller = "admin"
          /\ DOMAIN last'.body \cap JobIdentifiers # {} )
        => /\ last'.http = 400
           /\ jobs' = jobs
      ]_vars

\* An admin asked to move an existing job to another company that exists.
C8_Witness ==
    /\ last.op = "PATCH /jobs/:id" /\ last.caller = "admin"
    /\ "companyHandle" \in DOMAIN last.body
    /\ last.http = 400
    /\ \E j \in jobs : /\ j.id = last.id
                       /\ j.company_handle # last.body.companyHandle
                       /\ ForeignKeyHolds(companies, last.body.companyHandle)

\* C10: a company filter with both a minimum and a maximum employee count
\* and min > max is answered 400, and no query is sent to the database.
C10_RangeRejected ==
    ( /\ last.op = "GET /companies"
      /\ last.min # Undefined /\ last.max # Undefined
      /\ last.min[1] > last.max[1] )
    => /\ last.http = 400
       /\ last.nq = 0 /\ ~last.called

\* Such a filter was asked while a company is stored that the minimum alone
\* would select.
C10_Witness ==
    /\ last.op = "GET /companies"
    /\ last.min = Some(2) /\ last.max = Some(1)
    /\ last.http = 400
    /\ \E c \in companies : c.num_employees >= 2

-----------------------------------------------------------------------------
(* Properties of concurrent creation *)

\* C9: a Company.create of a handle that is already stored is rejected with
\* BadRequestError (400) and stores nothing, also when another
\* Company.create of the same handle ran between its duplicate check and its
\* INSERT; and no handle ever has more than one row.
C9_DuplicateRejected ==
    /\ (last.op = "Company.create" /\ last.existed) =>
          /\ last.status = "BadRequestError"
          /\ last.http = 400
          /\ ~last.stored
    /\ \A h \in Handles : Cardinality(CompaniesWithHandle(companies, h)) <= 1

-----------------------------------------------------------------------------
(* Properties of sqlForPartialUpdate *)

IsSql == last.op = "sqlForPartialUpdate" /\ DOMAIN last.d # {}

\* setCols and values as the claim gives them, cols[key] being the column
\* key is written with.
SqlResultIs(d, cols) ==
    LET keys == Object_keys(d)
        n == Len(keys)
    IN  /\ last.status = "ok"
        /\ last.setCols = Join([k \in 1..n |->
                                  "\"" \o cols[keys[k]] \o "\"=$" \o ToString(k)],
                               ", ")
        /\ last.values = [k \in 1..n |-> d[keys[k]]]

C12_EmptyUpdate ==
    [][ /\ (last'.op = "Job.update" /\ DOMAIN last'.arg = {}) =>
              /\ sqlForPartialUpdate(last'.arg, JobJsToSql).status = "BadRequestError"
              /\ last'.status = "BadRequestError"
              /\ last'.nq = 0
              /\ jobs' = jobs /\ companies' = companies
        /\ (last'.op = "Company.update" /\ DOMAIN last'.arg = {}) =>
              /\ sqlForPartialUpdate(last'.arg, CompanyJsToSql).status
                    = "BadRequestError"
              /\ last'.status = "BadRequestError"
              /\ last'.nq = 0
              /\ jobs' = jobs /\ companies' = companies
      ]_vars

\* Job.update(id, {}) for a job that exists.
C12_Witness ==
    /\ last.op = "Job.update" /\ DOMAIN last.arg = {}
    /\ last.status = "BadRequestError"
    /\ JobsWithId(jobs, last.id) # {}

-----------------------------------------------------------------------------
(* Properties of Job.get and of the references between the tables *)

\* C13: Job.get(id) of an existing job returns the job's title, salary,
\* equity and companyHandle and its id; of an id without a row it fails with
\* NotFoundError.
C13_GetReturnsJobWithId ==
    last.op = "Job.get" =>
        IF JobsWithId(jobs, last.id) = {}
        THEN last.status = "NotFoundError"
        ELSE /\ last.status = "ok"
             /\ \E r \in JobsWithId(jobs, last.id) :
                   /\ DOMAIN last.out =
                         {"title", "salary", "equity", "companyHandle", "id"}
                   /\ last.out.title = r.title
                   /\ last.out.salary = r.salary
                   /\ last.out.equity = r.equity
                   /\ last.out.companyHandle = r.company_handle
                   /\ last.out.id = r.id

\* C14: in every state reached by Company.create, Company.remove,
\* Job.create, Job.update and Job.remove, every stored job's company is a
\* stored company.
C14_JobsReferenceCompanies ==
    \A j \in jobs : \E c \in companies : c.handle = j.company_handle

\* A job was moved to another stored company by its column's name, while a
\* job made before is no longer stored.
C14_Witness ==
    /\ last.op = "Job.update" /\ last.status = "ok"
    /\ "company_handle" \in DOMAIN last.arg
    /\ \E j \in jobs : j.id = last.id /\ j.company_handle = "c2"
    /\ Cardinality(jobs) < nextId - 1

-----------------------------------------------------------------------------
(* Properties of the criteria of Job.multi_filter *)

\* An argument with a falsy value replaced by no argument.
Supplied(a, falsy) == IF a = Some(falsy) THEN Undefined ELSE a

SortedByTitle(res) ==
    \A i \in 1..Len(res) : \A k \in (i + 1)..Len(res) :
        TextLeq(res[i].title, res[k].title)

\* C15: a criterion that is not supplied restricts nothing in
\* Job.multi_filter: without criteria it returns all jobs ordered by title;
\* hasEquity = false gives what hasEquity omitted gives; and an empty title
\* or a minSalary of 0 gives what the argument omitted gives.
C15_UnsuppliedNoRestriction ==
    IsFilter =>
        /\ Job_multi_filter(jobs, last.str, last.min, last.hasEquity)
              = Job_multi_filter(jobs, Supplied(last.str, <<>>),
                                 Supplied(last.min, 0),
                                 Supplied(last.hasEquity, FALSE))
        /\ ( /\ ~TruthyStr(last.str) /\ ~TruthyNum(last.min)
             /\ ~TruthyBool(last.hasEquity) )
           => /\ Range(last.ids) = { r.id : r \in jobs }
              /\ Len(last.ids) = Cardinality(jobs)
              /\ SortedByTitle(last.out)

\* minSalary = 0 and hasEquity = false were passed, and a job without salary
\* and one without equity are in the result.
C15_Witness ==
    /\ IsFilter
    /\ last.min = Some(0) /\ last.hasEquity = Some(FALSE)
    /\ \E r \in jobs : r.id \in Range(last.ids) /\ r.salary = NULL
    /\ \E r \in jobs : r.id \in Range(last.ids) /\ r.equity = NULL
    /\ Len(last.ids) = MaxJobId

\* The single criteria, each true of a row when it is not supplied.
JobTitleOk(r, str) == TruthyStr(str) => Like(toLowerCase(r.title), toLowerCase(str[1]))
JobSalaryOk(r, min) == TruthyNum(min) => (r.salary # NULL /\ r.salary[1] >= min[1])
JobEquityOk(r, hasEquity) == TruthyBool(hasEquity) => r.equity # NULL

CompanyNameOk(r, str) == TruthyStr(str) => Like(toLowerCase(r.name), toLowerCase(str[1]))
CompanyMinOk(r, min) == TruthyNum(min) => r.num_employees >= min[1]
CompanyMaxOk(r, max) == TruthyNum(max) => r.num_employees <= max[1]

Distinct(seq) == \A i, k \in 1..Len(seq) : i # k => seq[i] # seq[k]

\* C16: the result of Job.multi_filter and of Company.multi_filter is a
\* sub-sequence of the title/name-filtered result in its order: it has every
\* row that satisfies all supplied criteria, each stored row at most once, no
\* row that fails the title/name criterion, and any other row it has shares
\* its title/name with a row satisfying each of the other criteria.
C16_SubSequence ==
    /\ last.op = "Job.multi_filter" =>
          LET ids == last.ids
              Row(i) == CHOOSE r \in jobs : r.id = ids[i]
          IN  /\ Distinct(ids)
              /\ Range(ids) \subseteq { r.id : r \in jobs }
              /\ \A i \in 1..Len(ids) : \A k \in (i + 1)..Len(ids) :
                    TextLeq(Row(i).title, Row(k).title)
              /\ \A i \in 1..Len(ids) : JobTitleOk(Row(i), last.str)
              /\ \A r \in jobs :
                    ( /\ JobTitleOk(r, last.str) /\ JobSalaryOk(r, last.min)
                      /\ JobEquityOk(r, last.hasEquity) ) => r.id \in Range(ids)
              /\ \A i \in 1..Len(ids) :
                    /\ \E r \in jobs : r.title = Row(i).title /\ JobSalaryOk(r, last.min)
                    /\ \E r \in jobs :
                          r.title = Row(i).title /\ JobEquityOk(r, last.hasEquity)
    /\ last.op = "Company.multi_filter" =>
          LET hs == [i \in 1..Len(last.out) |-> last.out[i].handle]
              Row(i) == CHOOSE r \in companies : r.handle = hs[i]
          IN  /\ Distinct(hs)
              /\ Range(hs) \subseteq { r.handle : r \in companies }
              /\ \A i \in 1..Len(hs) : \A k \in (i + 1)..Len(hs) :
                    TextLeq(Row(i).name, Row(k).name)
              /\ \A i \in 1..Len(hs) : CompanyNameOk(Row(i), last.str)
              /\ \A r \in companies :
                    ( /\ CompanyNameOk(r, last.str) /\ CompanyMinOk(r, last.min)
                      /\ CompanyMaxOk(r, last.max) ) => r.handle \in Range(hs)
              /\ \A i \in 1..Len(hs) :
                    /\ \E r \in companies :
                          r.name = Row(i).name /\ CompanyMinOk(r, last.min)
                    /\ \E r \in companies :
                          r.name = Row(i).name /\ CompanyMaxOk(r, last.max)

\* A result with a row that fails the salary criterion, kept for the title it
\* shares with a row that meets it.
C16_Witness ==
    /\ last.op = "Job.multi_filter" /\ TruthyNum(last.min)
    /\ \E r \in jobs : r.id \in Range(last.ids) /\ ~JobSalaryOk(r, last.min)
    /\ \E r \in jobs : r.id \in Range(last.ids) /\ JobSalaryOk(r, last.min)

-----------------------------------------------------------------------------
(* Properties of Job.multi_filter among writes *)

\* C17: while job titles are pairwise distinct, every row Job.multi_filter
\* returns with a minSalary criterion carries a salary >= minSalary, and with
\* hasEquity = true an equity that is not NULL, also when Job.update and
\* Job.remove of other requests run between its three queries.
C17_ReturnedDataMeetsCriteria ==
    ( /\ last.op = "Job.multi_filter" /\ "distinct" \in DOMAIN last
      /\ last.distinct )
    => \A i \in 1..Len(last.out) :
          /\ TruthyNum(last.min) =>
                /\ last.out[i].salary # NULL
                /\ last.out[i].salary[1] >= last.min[1]
          /\ TruthyBool(last.hasEquity) => last.out[i].equity # NULL
=============================================================================
